---- MODULE Spec2Model ----
(***************************************************************************)
(* Conversational memory subsystem of the Broadway Pizza chatbot           *)
(* (src/memory.py on top of src/database.py and the chat_* tables of       *)
(* src/setup_db.py): the persistent store, the ChatMemory instances of     *)
(* the workers, the retry wrapper and the compaction.                      *)
(***************************************************************************)
EXTENDS Integers, Sequences, FiniteSets, TLC

(***************************************************************************)
(* Program constants (src/config.py).                                      *)
(***************************************************************************)
MEMORY_BUFFER_SIZE == 6
MEMORY_SUMMARY_THRESHOLD == 10
LLM_MAX_RETRIES == 3
LLM_BASE_DELAY == 1

(***************************************************************************)
(* Bounds of the model.                                                    *)
(***************************************************************************)
\* turns of session "A", the session that is followed past the summary
\* threshold
MaxMsgs == 11
\* turns save_message appends to session "B", the other session, from an
\* empty log
MaxOther == 1
\* largest value of the store's clock (CURRENT_TIMESTAMP, in seconds)
MaxClock == 1
\* storage errors injected over a behaviour
MaxFaults == 1
\* largest LIMIT a caller passes to get_recent_history
MaxLimit == 7
\* chat turns of the page
MaxChat == 3

Tokens == {"A", "B"}
Workers == {"w1", "w2"}
\* the workers whose requests Spec follows: one worker serves the requests
\* of both sessions one after the other
Serving == {"w1"}
Identities == {"0300X"}
\* Python's None / SQL NULL
NULL == "NULL"

(***************************************************************************)
(* State.                                                                  *)
(*  chat_sessions[s]  : <<>> when the table has no row for s, else         *)
(*                      <<[user_id |-> ...]>>  (session_id is the key).    *)
(*  chat_messages[s]  : the rows of chat_messages with session_id = s in   *)
(*                      the order of their AUTOINCREMENT id.               *)
(*  chat_summaries[s] : <<>> or <<[summary, last_updated]>>.               *)
(*  now               : the store's clock (CURRENT_TIMESTAMP).             *)
(*  mem[w]            : the ChatMemory instance of worker w, <<>> before   *)
(*                      construction.                                      *)
(*  pc[w]             : position of worker w: "idle", or "retrying" inside *)
(*                      the wrapper of retry_with_backoff.                 *)
(*  attempt[w]        : loop variable of the wrapper.                      *)
(*  args[w]           : arguments of the running _call_summarization_api.  *)
(*  run[w]            : the calls and sleeps of the running wrapper.       *)
(*  last              : the call that ended in the last step, when it      *)
(*                      raised or went through the wrapper (prior is the   *)
(*                      summary the compaction started from); NoLast else. *)
(*  returned[s]       : save_message calls on s that returned normally.    *)
(*  faults            : storage errors met so far.                         *)
(*  messages          : st.session_state.messages of the chat page.        *)
(*  generation        : the generation call of the page's last chat turn:  *)
(*                      what the backend answers to successive calls and   *)
(*                      the calls made; NoGeneration when the turn was     *)
(*                      answered without the backend.                      *)
(***************************************************************************)
VARIABLES chat_sessions, chat_messages, chat_summaries, now,
          mem, pc, attempt, args, run, last, returned, faults,
          messages, generation

vars == <<chat_sessions, chat_messages, chat_summaries, now,
          mem, pc, attempt, args, run, last, returned, faults,
          messages, generation>>

\* the state of the chat page (src/app.py)
app == <<messages, generation>>

db == <<chat_sessions, chat_messages, chat_summaries>>

NoRun == [calls |-> <<>>, sleeps |-> <<>>, writes |-> 0]
NoLast == [op |-> "none", w |-> "none", result |-> "none",
           calls |-> <<>>, sleeps |-> <<>>, writes |-> 0, prior |-> "none"]

\* Python's truth test of an identity with the empty string left out
FalsyNoneOnly(x) == x = "NULL"

\* a call of op by w that ended by raising / by returning
Raised(op, w) == [NoLast EXCEPT !.op = op, !.w = w, !.result = "raised"]
Outcome(op, w, raised) == IF raised THEN Raised(op, w) ELSE NoLast
\* a generate_summary call of w that returned before the wrapper
Skipped(w) == [NoLast EXCEPT !.op = "generate_summary", !.w = w, !.result = "returned"]
\* an associate_user call of w that returned at its guard
NoOp(w) == [NoLast EXCEPT !.op = "associate_user", !.w = w, !.result = "returned"]
NoArgs == <<>>
NoGeneration == [answers |-> <<>>, calls |-> 0]

\* the welcome message main appends to an empty history (a text is a tuple
\* of fragments)
WelcomeMsg == [role |-> "assistant", content |-> <<"Welcome to Broadway Pizza Pakistan!">>]

Init ==
    /\ chat_sessions = [s \in Tokens |-> <<>>]
    /\ chat_messages = [s \in Tokens |-> <<>>]
    /\ chat_summaries = [s \in Tokens |-> <<>>]
    /\ now = 0
    /\ mem = [w \in Workers |-> <<>>]
    /\ pc = [w \in Workers |-> "idle"]
    /\ attempt = [w \in Workers |-> 0]
    /\ args = [w \in Workers |-> NoArgs]
    /\ run = [w \in Workers |-> NoRun]
    /\ last = NoLast
    /\ returned = [s \in Tokens |-> 0]
    /\ faults = 0
    /\ messages = <<WelcomeMsg>>
    /\ generation = NoGeneration

(***************************************************************************)
(* Storage outcomes.  DatabaseConnection (writes) turns a failed connect   *)
(* into DatabaseError; an error of cursor.execute / commit leaves the      *)
(* with-block as sqlite3.Error after a rollback.  execute_query (reads)    *)
(* turns every sqlite3.Error into DatabaseError.                           *)
(***************************************************************************)
WriteOutcomes == {"ok", "connect_error", "execute_error"}
ReadOutcomes == {"ok", "error"}

Fault(o) == IF o = "ok" THEN 0 ELSE 1

Falsy(x) == x \in {NULL, ""}

MaxTurns(s) == IF s = "A" THEN MaxMsgs ELSE MaxOther

Min(a, b) == IF a < b THEN a ELSE b

Self(w) == mem[w][1]

\* a worker that holds an instance and is not inside a call
Ready(w) == mem[w] # <<>> /\ pc[w] = "idle"

(***************************************************************************)
(* ChatMemory.__init__ and _ensure_session.                                *)
(***************************************************************************)
\* the SELECT of __init__: the stored identity, when there is a truthy one
StoredUserId(token, user_id) ==
    IF chat_sessions[token] # <<>> /\ ~Falsy(chat_sessions[token][1].user_id)
    THEN chat_sessions[token][1].user_id
    ELSE user_id

\* INSERT OR IGNORE INTO chat_sessions
InsertOrIgnoreSession(token, user_id) ==
    IF chat_sessions[token] = <<>>
    THEN [chat_sessions EXCEPT ![token] = <<[user_id |-> user_id]>>]
    ELSE chat_sessions

Construct(w, token, user_id, ro, wo) ==
    /\ pc[w] = "idle"
    /\ faults + Fault(ro) + Fault(wo) <= MaxFaults
    \* the SELECT runs only when no user_id was given; after its error
    \* _ensure_session is not reached
    /\ ~Falsy(user_id) => ro = "ok"
    /\ ro = "error" => wo = "ok"
    /\ LET uid == IF Falsy(user_id) THEN StoredUserId(token, user_id) ELSE user_id
           raised == ro = "error" \/ wo = "execute_error"
       IN /\ chat_sessions' = IF ro = "ok" /\ wo = "ok"
                              THEN InsertOrIgnoreSession(token, uid)
                              ELSE chat_sessions
          /\ mem' = [mem EXCEPT ![w] =
                        IF raised THEN <<>>
                        ELSE <<[session_id |-> token, user_id |-> uid]>>]
          /\ last' = Outcome("__init__", w, raised)
    /\ faults' = faults + Fault(ro) + Fault(wo)
    /\ UNCHANGED <<app, chat_messages, chat_summaries, now, pc, attempt, args, run, returned>>

(***************************************************************************)
(* ChatMemory.associate_user.                                              *)
(***************************************************************************)
\* the UPDATE without its WHERE clause
UpdateSessionUserEveryRow(token, user_id) ==
    [t \in Tokens |->
        IF chat_sessions[t] = <<>> THEN <<>> ELSE <<[user_id |-> user_id]>>]

\* UPDATE chat_sessions SET user_id = ? WHERE session_id = ?
UpdateSessionUser(token, user_id) ==
    IF chat_sessions[token] = <<>>
    THEN chat_sessions
    ELSE [chat_sessions EXCEPT ![token] = <<[user_id |-> user_id]>>]

AssociateUser(w, phone, wo) ==
    /\ Ready(w)
    /\ faults + Fault(wo) <= MaxFaults
    /\ Falsy(phone) => wo = "ok"
    /\ IF Falsy(phone)
       THEN /\ UNCHANGED <<chat_sessions, mem>>
            /\ last' = NoOp(w)
       ELSE /\ mem' = [mem EXCEPT ![w] = <<[Self(w) EXCEPT !.user_id = phone]>>]
            /\ chat_sessions' = IF wo = "ok"
                                THEN UpdateSessionUser(Self(w).session_id, phone)
                                ELSE chat_sessions
            /\ last' = Outcome("associate_user", w, wo = "execute_error")
    /\ faults' = faults + Fault(wo)
    /\ UNCHANGED <<app, chat_messages, chat_summaries, now, pc, attempt, args, run, returned>>

(***************************************************************************)
(* ChatMemory.save_message.                                                *)
(***************************************************************************)
\* the message a caller passes as the n-th turn of session s: the roles
\* alternate from "user", the texts are pairwise distinct
RoleOf(n) == IF n % 2 = 1 THEN "user" ELSE "assistant"
ContentOf(s, n) == <<s, ToString(n)>>

\* INSERT OR REPLACE on the latest row of the session
ReplaceMessage(s, role, content) ==
    [chat_messages EXCEPT ![s] =
        IF @ = <<>>
        THEN <<[session_id |-> s, role |-> role, content |-> content, timestamp |-> now]>>
        ELSE [@ EXCEPT ![Len(@)] =
                [session_id |-> s, role |-> role, content |-> content, timestamp |-> now]]]

\* INSERT INTO chat_messages (session_id, role, content): id and timestamp
\* take their defaults
InsertMessage(s, role, content) ==
    [chat_messages EXCEPT ![s] = Append(@,
        [session_id |-> s, role |-> role, content |-> content, timestamp |-> now])]

SaveMessage(w, role, content, wo) ==
    /\ Ready(w)
    /\ Len(chat_messages[Self(w).session_id]) < MaxTurns(Self(w).session_id)
    /\ faults + Fault(wo) <= MaxFaults
    /\ faults' = faults + Fault(wo)
    /\ UNCHANGED <<app, chat_sessions, chat_summaries, now, mem, pc, attempt, args, run>>
    /\ chat_messages' = IF wo = "ok"
                        THEN InsertMessage(Self(w).session_id, role, content)
                        ELSE chat_messages
    /\ last' = Outcome("save_message", w, wo = "execute_error")
    /\ returned' = IF wo = "execute_error" THEN returned
                   ELSE [returned EXCEPT ![Self(w).session_id] = @ + 1]

(***************************************************************************)
(* The SELECTs on chat_messages.                                           *)
(***************************************************************************)
\* the table in id order within each session
Table == chat_messages["A"] \o chat_messages["B"]

\* the SELECT without its WHERE clause
WhereSessionUnfiltered(rows, sid) == rows

\* WHERE session_id = ?
WhereSession(rows, sid) == SelectSeq(rows, LAMBDA r : r.session_id = sid)

\* r sorts strictly before e under ORDER BY timestamp <dir>
Precedes(r, e, dir) ==
    IF dir = "ASC" THEN r.timestamp < e.timestamp ELSE r.timestamp > e.timestamp

\* r put into the sorted rows behind every row it does not sort before: rows
\* of equal timestamp keep the order of the scan (SQLite's sorter is stable)
RECURSIVE InsertSorted(_, _, _)
InsertSorted(sorted, r, dir) ==
    IF sorted = <<>> THEN <<r>>
    ELSE IF Precedes(r, Head(sorted), dir) THEN <<r>> \o sorted
    ELSE <<Head(sorted)>> \o InsertSorted(Tail(sorted), r, dir)

\* ORDER BY timestamp ASC | DESC
RECURSIVE OrderByTimestamp(_, _)
OrderByTimestamp(rows, dir) ==
    IF rows = <<>> THEN <<>>
    ELSE InsertSorted(OrderByTimestamp(SubSeq(rows, 1, Len(rows) - 1), dir),
                      rows[Len(rows)], dir)

\* LIMIT ?
Limit(rows, limit) == SubSeq(rows, 1, Min(limit, Len(rows)))

\* reversed(rows)
Reversed(rows) == [i \in 1..Len(rows) |-> rows[Len(rows) + 1 - i]]

\* {"role": row["role"], "content": row["content"]}
RoleContent(rows) ==
    [i \in 1..Len(rows) |-> [role |-> rows[i].role, content |-> rows[i].content]]

\* get_recent_history of the instance of session sid; ro is the outcome of
\* its read
get_recent_history(sid, limit, ro) ==
    IF ro = "error" THEN <<>>
    ELSE RoleContent(Reversed(Limit(
            OrderByTimestamp(WhereSession(Table, sid), "DESC"), limit)))

get_all_history(sid, ro) ==
    IF ro = "error" THEN <<>>
    ELSE RoleContent(OrderByTimestamp(WhereSession(Table, sid), "ASC"))

\* SELECT COUNT( * ) ... WHERE session_id = ?
get_total_message_count(sid, ro) ==
    IF ro = "error" THEN 0 ELSE Len(WhereSession(Table, sid))

(***************************************************************************)
(* ChatMemory.get_summary.  The result is a set: rows of one identity      *)
(* group with equal last_updated leave the first row of                    *)
(* ORDER BY cs.last_updated DESC LIMIT 1 open.                             *)
(***************************************************************************)
\* the sessions of chat_summaries JOIN chat_sessions WHERE s.user_id = ?
GroupRows(user_id) ==
    {t \in Tokens : /\ chat_summaries[t] # <<>>
                    /\ chat_sessions[t] # <<>>
                    /\ chat_sessions[t][1].user_id = user_id}

Latest(group) ==
    {t \in group :
        \A u \in group : chat_summaries[u][1].last_updated
                            <= chat_summaries[t][1].last_updated}

get_summary(inst, ro) ==
    IF ro = "error" THEN {NULL}
    ELSE IF ~Falsy(inst.user_id) /\ GroupRows(inst.user_id) # {}
    THEN {chat_summaries[t][1].summary : t \in Latest(GroupRows(inst.user_id))}
    ELSE IF chat_summaries[inst.session_id] # <<>>
    THEN {chat_summaries[inst.session_id][1].summary}
    ELSE {NULL}

(***************************************************************************)
(* ChatMemory.build_context_window.                                        *)
(***************************************************************************)
\* the f-string of the summary entry
SummaryMsg(summary) ==
    <<"LONG TERM MEMORY (PREVIOUS CONVERSATIONS):", summary,
      "(Use this to remember user context, orders, and name)">>

\* the test of the summary as a test for None only
SummaryPairNoneOnly(summary) ==
    IF summary = NULL THEN <<>>
    ELSE << [role |-> "user", parts |-> <<SummaryMsg(summary)>>],
            [role |-> "model", parts |-> << <<"Understood. I have the context.">> >>] >>

\* the two entries appended under "if summary:"
SummaryPair(summary) ==
    IF Falsy(summary) THEN <<>>
    ELSE << [role |-> "user", parts |-> <<SummaryMsg(summary)>>],
            [role |-> "model", parts |-> << <<"Understood. I have the context.">> >>] >>

\* the entries of the recent history (a text is a tuple of fragments)
RawTurns(recent) ==
    [i \in 1..Len(recent) |->
        [role |-> IF recent[i].role = "assistant" THEN "model" ELSE "user",
         parts |-> <<recent[i].content>>]]

\* the context windows a call can return; rs and rh are the outcomes of the
\* reads of get_summary and get_recent_history
build_context_window(inst, rs, rh) ==
    {SummaryPair(summary)
        \o RawTurns(get_recent_history(inst.session_id, MEMORY_BUFFER_SIZE, rh)) :
            summary \in get_summary(inst, rs)}

(***************************************************************************)
(* ChatMemory.generate_summary up to the call of _call_summarization_api.  *)
(* rc, rs, rr are the outcomes of the reads of get_total_message_count,    *)
(* get_summary and the SELECT of the oldest rows.                          *)
(***************************************************************************)
NoPreviousSummary == "No previous summary."

\* the early returns with the threshold test left out
BelowThresholdBufferOnly(count) == count <= MEMORY_BUFFER_SIZE

\* the two early returns on the count
BelowThreshold(count) ==
    count < MEMORY_SUMMARY_THRESHOLD \/ count <= MEMORY_BUFFER_SIZE

\* the SELECT of the oldest rows without its LIMIT
OldestRowsUnlimited(sid, limit) ==
    RoleContent(OrderByTimestamp(WhereSession(Table, sid), "ASC"))

\* the SELECT skipping the rows of the first compaction once the session
\* has a summary row
OldestRowsUnsummarized(sid, limit) ==
    LET rows == RoleContent(Limit(OrderByTimestamp(WhereSession(Table, sid), "ASC"), limit))
        first == MEMORY_SUMMARY_THRESHOLD - MEMORY_BUFFER_SIZE
    IN IF chat_summaries[sid] = <<>> THEN rows
       ELSE SubSeq(rows, first + 1, Len(rows))

\* the rows generate_summary selects for a count
OldestRows(sid, limit) ==
    RoleContent(Limit(OrderByTimestamp(WhereSession(Table, sid), "ASC"), limit))

GenerateSummary(w, rc, rs, rr) ==
    /\ Ready(w)
    /\ faults + Fault(rc) + Fault(rs) + Fault(rr) <= MaxFaults
    /\ faults' = faults + Fault(rc) + Fault(rs) + Fault(rr)
    /\ UNCHANGED <<app, db, now, mem, attempt, run, returned>>
    /\ LET sid == Self(w).session_id
           count == get_total_message_count(sid, rc)
           early == BelowThreshold(count)
           limit == count - MEMORY_BUFFER_SIZE
           messages_to_summarize ==
               IF rr = "error" THEN <<>> ELSE OldestRows(sid, limit)
           skipped == early \/ limit <= 0 \/ rr = "error"
                        \/ messages_to_summarize = <<>>
       IN /\ early => rs = "ok" /\ rr = "ok"
          /\ \E summary \in get_summary(Self(w), rs) :
                LET current_summary ==
                        IF Falsy(summary) THEN NoPreviousSummary ELSE summary
                IN IF skipped
                   THEN /\ last' = Skipped(w)
                        /\ UNCHANGED <<pc, args>>
                   ELSE /\ pc' = [pc EXCEPT ![w] = "retrying"]
                        /\ args' = [args EXCEPT ![w] =
                                    <<[current_summary |-> current_summary,
                                       messages |-> messages_to_summarize]>>]
                        /\ last' = NoLast

(***************************************************************************)
(* One iteration of the wrapper of retry_with_backoff around               *)
(* _call_summarization_api: the call, update_summary on a text, and the    *)
(* except branch.                                                          *)
(***************************************************************************)
\* generate_content raises
BackendError == "BACKEND_ERROR"
\* what the backend answers: an exception, a response without text, texts
Responses == {BackendError, NULL, "S1", " S2 "}
\* a text of blanks only
BlankText == "  "

\* str.strip()
Strip(text) ==
    IF text = " S2 " THEN "S2"
    ELSE IF text = BlankText THEN ""
    ELSE text

RECURSIVE Pow2(_)
Pow2(n) == IF n = 0 THEN 1 ELSE 2 * Pow2(n - 1)

\* INSERT OR IGNORE: the row of an earlier call is kept
UpsertSummaryIgnore(sid, new_summary) ==
    [chat_summaries EXCEPT ![sid] =
        IF @ = <<>>
        THEN Append(@, [summary |-> new_summary, last_updated |-> now])
        ELSE @]

\* a plain INSERT on a table without the key on session_id
UpsertSummaryInsert(sid, new_summary) ==
    [chat_summaries EXCEPT ![sid] =
        Append(@, [summary |-> new_summary, last_updated |-> now])]

\* the DO UPDATE reaching every row of the table
UpsertSummaryEveryRow(sid, new_summary) ==
    [t \in Tokens |->
        IF t = sid \/ chat_summaries[t] # <<>>
        THEN <<[summary |-> new_summary, last_updated |-> now]>>
        ELSE chat_summaries[t]]

\* INSERT ... ON CONFLICT(session_id) DO UPDATE
UpsertSummary(sid, new_summary) ==
    [chat_summaries EXCEPT ![sid] =
        IF @ = <<>>
        THEN Append(@, [summary |-> new_summary, last_updated |-> now])
        ELSE [i \in DOMAIN @ |->
                [@[i] EXCEPT !.summary = new_summary, !.last_updated = now]]]

\* update_summary without the rollback of DatabaseConnection.__exit__
update_summary_no_rollback(sid, new_summary, wo) ==
    [table |-> IF wo \in {"ok", "execute_error"}
               THEN UpsertSummary(sid, new_summary) ELSE chat_summaries,
     raised |-> wo = "execute_error"]

\* update_summary: the table after it and whether it raised
update_summary(sid, new_summary, wo) ==
    [table |-> IF wo = "ok" THEN UpsertSummary(sid, new_summary) ELSE chat_summaries,
     raised |-> wo = "execute_error"]

\* the delay with the attempts numbered from 1
DelayFromOne(a) == LLM_BASE_DELAY * Pow2(a + 1)

\* the delay slept after the failure of attempt number a
Delay(a) == LLM_BASE_DELAY * Pow2(a)

\* the re-raise test off by one
LastAttemptOffByOne(a) == a = LLM_MAX_RETRIES

\* the except branch re-raises on this attempt
LastAttempt(a) == a = LLM_MAX_RETRIES - 1

CallSummarizationApi(w, response, wo) ==
    /\ pc[w] = "retrying"
    /\ faults + Fault(wo) <= MaxFaults
    /\ LET backend_failed == response \in {BackendError, NULL}
           upd == update_summary(Self(w).session_id, Strip(response), wo)
           failed == backend_failed \/ upd.raised
           call == [backend |-> IF backend_failed THEN "failed" ELSE "ok",
                    write |-> IF backend_failed THEN "none" ELSE wo]
           written == IF chat_summaries' # chat_summaries
                         \/ (~backend_failed /\ wo = "ok") THEN 1 ELSE 0
       IN /\ backend_failed => wo = "ok"
          /\ chat_summaries' = IF backend_failed THEN chat_summaries ELSE upd.table
          /\ IF ~failed \/ LastAttempt(attempt[w])
             THEN /\ pc' = [pc EXCEPT ![w] = "idle"]
                  /\ attempt' = [attempt EXCEPT ![w] = 0]
                  /\ args' = [args EXCEPT ![w] = NoArgs]
                  /\ run' = [run EXCEPT ![w] = NoRun]
                  /\ last' = [op |-> "generate_summary", w |-> w,
                              result |-> IF failed THEN "raised" ELSE "returned",
                              calls |-> Append(run[w].calls, call),
                              sleeps |-> run[w].sleeps,
                              writes |-> run[w].writes + written,
                              prior |-> args[w][1].current_summary]
             ELSE /\ attempt' = [attempt EXCEPT ![w] = @ + 1]
                  /\ run' = [run EXCEPT ![w] =
                        [calls |-> Append(@.calls, call),
                         sleeps |-> Append(@.sleeps, Delay(attempt[w])),
                         writes |-> @.writes + written]]
                  /\ last' = NoLast
                  /\ UNCHANGED <<pc, args>>
    /\ faults' = faults + Fault(wo)
    /\ UNCHANGED <<app, chat_sessions, chat_messages, now, mem, returned>>

\* a clock that can be set back
TickBack ==
    /\ now' \in (0..MaxClock) \ {now}
    /\ UNCHANGED <<app, db, mem, pc, attempt, args, run, last, returned, faults>>

\* CURRENT_TIMESTAMP advances
Tick ==
    /\ now < MaxClock
    /\ now' = now + 1
    /\ UNCHANGED <<app, db, mem, pc, attempt, args, run, last, returned, faults>>

\* the requests of the workers of W
Step(W) ==
    \/ \E w \in W, token \in Tokens, user_id \in Identities \cup {NULL},
          ro \in ReadOutcomes, wo \in WriteOutcomes :
            Construct(w, token, user_id, ro, wo)
    \/ \E w \in W, phone \in Identities \cup {NULL, ""}, wo \in WriteOutcomes :
            AssociateUser(w, phone, wo)
    \/ \E w \in W, wo \in WriteOutcomes :
            /\ mem[w] # <<>>
            /\ LET n == Len(chat_messages[Self(w).session_id]) + 1
               IN SaveMessage(w, RoleOf(n), ContentOf(Self(w).session_id, n), wo)
    \/ \E w \in W, rc \in ReadOutcomes, rs \in ReadOutcomes, rr \in ReadOutcomes :
            GenerateSummary(w, rc, rs, rr)
    \/ \E w \in W, response \in Responses, wo \in WriteOutcomes :
            CallSummarizationApi(w, response, wo)

Next == Step(Serving) \/ Tick

Spec == Init /\ [][Next]_vars

(***************************************************************************)
(* Two workers on two sessions that have reached the summary threshold:    *)
(* both sessions are registered without identity and hold                  *)
(* MEMORY_SUMMARY_THRESHOLD turns saved within one second, no summary has  *)
(* been written, and the store answers every statement from here on.       *)
(***************************************************************************)
ThresholdLog(s) ==
    [n \in 1..MEMORY_SUMMARY_THRESHOLD |->
        [session_id |-> s, role |-> RoleOf(n), content |-> ContentOf(s, n),
         timestamp |-> 0]]

InitGroup ==
    /\ chat_sessions = [s \in Tokens |-> <<[user_id |-> NULL]>>]
    /\ chat_messages = [s \in Tokens |-> ThresholdLog(s)]
    /\ chat_summaries = [s \in Tokens |-> <<>>]
    /\ now = 0
    /\ mem = [w \in Workers |-> <<>>]
    /\ pc = [w \in Workers |-> "idle"]
    /\ attempt = [w \in Workers |-> 0]
    /\ args = [w \in Workers |-> NoArgs]
    /\ run = [w \in Workers |-> NoRun]
    /\ last = NoLast
    /\ returned = [s \in Tokens |-> MEMORY_SUMMARY_THRESHOLD]
    /\ faults = MaxFaults
    /\ messages = <<WelcomeMsg>>
    /\ generation = NoGeneration

\* the texts the backend answers with
GroupResponses == {"S1", " S2 "}

\* the identities the two workers associate
GroupIdentities == {"0300X", "0300Y"}

\* the requests of the two workers: instances are constructed from the token
\* alone, and the backend answers with a text
StepGroup ==
    \/ \E w \in Workers, token \in Tokens, ro \in ReadOutcomes, wo \in WriteOutcomes :
            Construct(w, token, NULL, ro, wo)
    \/ \E w \in Workers, phone \in GroupIdentities, wo \in WriteOutcomes :
            AssociateUser(w, phone, wo)
    \/ \E w \in Workers, wo \in WriteOutcomes :
            /\ mem[w] # <<>>
            /\ LET n == Len(chat_messages[Self(w).session_id]) + 1
               IN SaveMessage(w, RoleOf(n), ContentOf(Self(w).session_id, n), wo)
    \/ \E w \in Workers, rc \in ReadOutcomes, rs \in ReadOutcomes, rr \in ReadOutcomes :
            GenerateSummary(w, rc, rs, rr)
    \/ \E w \in Workers, response \in GroupResponses, wo \in WriteOutcomes :
            CallSummarizationApi(w, response, wo)

NextGroup == StepGroup \/ Tick

SpecGroup == InitGroup /\ [][NextGroup]_vars
(***************************************************************************)
(* One worker on a session that is due for compaction: session "A" is      *)
(* registered without identity and holds MEMORY_SUMMARY_THRESHOLD turns,   *)
(* the store can fail, and the backend can also answer with blanks only.   *)
(* SpecDueFair adds what the backend promises: called again and again, it  *)
(* eventually answers with a text that the store commits.                  *)
(***************************************************************************)
InitDue ==
    /\ chat_sessions = [s \in Tokens |-> <<[user_id |-> NULL]>>]
    /\ chat_messages = [s \in Tokens |-> ThresholdLog(s)]
    /\ chat_summaries = [s \in Tokens |-> <<>>]
    /\ now = 0
    /\ mem = [w \in Workers |-> <<>>]
    /\ pc = [w \in Workers |-> "idle"]
    /\ attempt = [w \in Workers |-> 0]
    /\ args = [w \in Workers |-> NoArgs]
    /\ run = [w \in Workers |-> NoRun]
    /\ last = NoLast
    /\ returned = [s \in Tokens |-> MEMORY_SUMMARY_THRESHOLD]
    /\ faults = 0
    /\ messages = <<WelcomeMsg>>
    /\ generation = NoGeneration

\* the backend answers a call with a text and the store commits it
Answered == \E response \in {"S1", " S2 "} : CallSummarizationApi("w1", response, "ok")

StepDue ==
    \/ \E user_id \in Identities \cup {NULL}, ro \in ReadOutcomes, wo \in WriteOutcomes :
            Construct("w1", "A", user_id, ro, wo)
    \/ \E phone \in Identities \cup {NULL, ""}, wo \in WriteOutcomes :
            AssociateUser("w1", phone, wo)
    \/ \E wo \in WriteOutcomes :
            /\ mem["w1"] # <<>>
            /\ LET n == Len(chat_messages["A"]) + 1
               IN SaveMessage("w1", RoleOf(n), ContentOf("A", n), wo)
    \/ \E rc \in ReadOutcomes, rs \in ReadOutcomes, rr \in ReadOutcomes :
            GenerateSummary("w1", rc, rs, rr)
    \/ \E response \in Responses \cup {BlankText}, wo \in WriteOutcomes :
            CallSummarizationApi("w1", response, wo)

NextDue == StepDue \/ Tick

SpecDue == InitDue /\ [][NextDue]_vars

SpecDueFair == SpecDue /\ SF_vars(Answered)

(***************************************************************************)
(* The chat turn of main (src/app.py): the prompt is appended to the       *)
(* history, the turn is answered by the order flows of the page or by one  *)
(* send_message call on the generation backend, and the assistant message  *)
(* is appended.  The page does not use ChatMemory.                         *)
(***************************************************************************)
\* what the generation backend does on a call: it answers, or raises an
\* exception with this text
ErrorTexts == {"503 Service Unavailable", "429 Resource exhausted"}
Answers == {"ok"} \cup ErrorTexts

\* what the backend does on the successive calls of one turn
AnswerRuns == [1..LLM_MAX_RETRIES -> Answers]

\* how a turn is answered: by the order and cart flows, or by the backend
Routes == {"local", "generate"}

\* the prompt of the n-th turn and the texts of its answers
PromptOf(n) == <<"prompt", ToString(n)>>
LocalReply(n) == <<"cart", ToString(n)>>
ResponseText(n) == <<"response", ToString(n)>>

\* f"I apologize, but I encountered an error: {str(e)}. Please try again."
Apology(e) == <<"I apologize, but I encountered an error: ", e, ". Please try again.">>

\* the number of the next chat turn
TurnNo == (Len(messages) + 1) \div 2

ChatTurn(route, answers) ==
    /\ TurnNo <= MaxChat
    /\ UNCHANGED <<db, now, mem, pc, attempt, args, run, last, returned, faults>>
    /\ LET n == TurnNo
           assistant_message ==
               IF route = "local" THEN LocalReply(n)
               ELSE IF answers[1] = "ok" THEN ResponseText(n)
               ELSE Apology(answers[1])
       IN /\ messages' = messages \o
                << [role |-> "user", content |-> PromptOf(n)],
                   [role |-> "assistant", content |-> assistant_message] >>
          /\ generation' = IF route = "local" THEN NoGeneration
                           ELSE [answers |-> answers, calls |-> 1]

NextApp == \E route \in Routes, answers \in AnswerRuns : ChatTurn(route, answers)

SpecApp == Init /\ [][NextApp]_vars

(***************************************************************************)
(* The claims.                                                             *)
(***************************************************************************)
\* the turns of session s in the order they were appended
Log(s) == chat_messages[s]

\* the last m turns of session s, oldest first, as {role, content}
LastTurns(s, m) == RoleContent(SubSeq(Log(s), Len(Log(s)) - m + 1, Len(Log(s))))

\* a context window without its summary pair
RawPart(cw) ==
    IF Len(cw) >= 2 /\ cw[1].parts[1][1] = SummaryMsg("")[1]
    THEN SubSeq(cw, 3, Len(cw))
    ELSE cw

\* C1: in every reachable state, for every instance, the raw-turn part of the
\* window build_context_window returns (its reads succeeding) is exactly the
\* min(MEMORY_BUFFER_SIZE, N) most recently appended turns of the session, in
\* append order, content unchanged.
C1_BufferInvariant ==
    \A w \in Workers : mem[w] # <<>> =>
        LET sid == Self(w).session_id
            m == Min(MEMORY_BUFFER_SIZE, Len(Log(sid)))
        IN \A cw \in build_context_window(Self(w), "ok", "ok") :
                RawPart(cw) = RawTurns(LastTurns(sid, m))

\* the contents of the turns appended under another token than sid
ForeignContents(sid) ==
    {Table[i].content : i \in {j \in DOMAIN Table : Table[j].session_id # sid}}

SaveMessageCall(w) ==
    /\ mem[w] # <<>>
    /\ \E wo \in WriteOutcomes :
        LET n == Len(Log(Self(w).session_id)) + 1
        IN SaveMessage(w, RoleOf(n), ContentOf(Self(w).session_id, n), wo)

\* C3: a call of save_message either adds exactly one turn to the session's
\* log and returns normally, or leaves the log unchanged and raises; it never
\* returns normally with the turn unsaved.
C3_SaveAtomic ==
    [][\A w \in Workers : SaveMessageCall(w) =>
        LET sid == Self(w).session_id
        IN \/ /\ Len(chat_messages'[sid]) = Len(chat_messages[sid]) + 1
              /\ last'.result # "raised"
           \/ /\ chat_messages' = chat_messages
              /\ last' = Raised("save_message", w)]_vars

\* C4: for every session, get_total_message_count returns the number of
\* save_message calls on it that returned to the caller.
C4_CountEqualsReturned ==
    \A s \in Tokens : get_total_message_count(s, "ok") = returned[s]

\* C5: for every session with N turns and every k >= 0, get_recent_history(k)
\* returns exactly the last min(k, N) turns oldest-first in append order, turns
\* of the same timestamp in the order of their ids.
C5_RecentTail ==
    \A s \in Tokens, k \in 0..MaxLimit :
        get_recent_history(s, k, "ok") = LastTurns(s, Min(k, Len(Log(s))))

\* a call of generate_summary by w
GenerateSummaryCall(w) ==
    \E rc \in ReadOutcomes, rs \in ReadOutcomes, rr \in ReadOutcomes :
        GenerateSummary(w, rc, rs, rr)

\* the oldest m turns of session s in append order
OldestTurns(s, m) == RoleContent(SubSeq(Log(s), 1, m))

C7_NoCompactionBelowThreshold ==
    [][\A w \in Workers : GenerateSummaryCall(w) =>
        LET count == Len(Log(Self(w).session_id))
        IN (count - MEMORY_BUFFER_SIZE <= 0 \/ count < MEMORY_SUMMARY_THRESHOLD) =>
            /\ pc'[w] = "idle"
            /\ last' = Skipped(w)
            /\ run' = run
            /\ chat_summaries' = chat_summaries]_vars

\* a generate_summary call has just returned early on a session below the
\* threshold while a summary row exists
C7_Witness ==
    /\ last.op = "generate_summary" /\ last.calls = <<>>
    /\ Len(Log(Self(last.w).session_id)) < MEMORY_SUMMARY_THRESHOLD
    /\ \E s \in Tokens : chat_summaries[s] # <<>>

\* every call of the finished wrapper failed
AllFailed(calls) ==
    \A i \in DOMAIN calls : calls[i].backend = "failed" \/ calls[i].write = "execute_error"

\* C8: when every retry attempt of the summarization call fails,
\* generate_summary returns normally: no exception reaches its caller.
C8_ExhaustionSwallowed ==
    (last.op = "generate_summary" /\ last.calls # <<>> /\ AllFailed(last.calls))
        => last.result = "returned"

\* the number of leading calls in which the backend failed
BackendFailures(calls) ==
    CHOOSE k \in 0..Len(calls) :
        /\ \A i \in 1..k : calls[i].backend = "failed"
        /\ k < Len(calls) => calls[k + 1].backend = "ok"

\* the delays base_delay * 2^i, i = 0..k-1
Backoff(k) == [i \in 1..k |-> LLM_BASE_DELAY * Pow2(i - 1)]

C10_RetryBounded ==
    /\ \A w \in Workers : pc[w] = "retrying" =>
        /\ attempt[w] < LLM_MAX_RETRIES
        /\ Len(run[w].calls) = attempt[w]
        /\ Len(run[w].sleeps) = attempt[w]
    /\ last.op = "generate_summary" =>
        /\ Len(last.calls) <= LLM_MAX_RETRIES
        /\ Len(last.sleeps) = Len(last.calls) - (IF last.calls = <<>> THEN 0 ELSE 1)
        /\ (Len(last.calls) = LLM_MAX_RETRIES /\ AllFailed(last.calls)) =>
            /\ Len(last.sleeps) = LLM_MAX_RETRIES - 1
            /\ last.result = "raised"

\* all max_retries attempts of a summarization call have failed
C10_Witness ==
    /\ last.op = "generate_summary"
    /\ Len(last.calls) = LLM_MAX_RETRIES
    /\ AllFailed(last.calls)
    /\ last.result = "raised"

\* the identity chat_sessions stores for token t, NULL without a row
StoredIdentity(t) ==
    IF chat_sessions[t] = <<>> THEN NULL ELSE chat_sessions[t][1].user_id

\* the instance a worker gets for token t when it takes the identity from
\* the store
Resolved(t) == [session_id |-> t, user_id |-> StoredIdentity(t)]

\* C11: once associate_user has stored a non-empty identity for a token (in
\* SpecGroup a stored identity comes from associate_user only), every
\* instance that serves the token builds the windows that resolve the
\* summary against the group of that identity.
C11_GroupResolutionAfterAssociate ==
    \A w \in Workers : mem[w] # <<>> =>
        LET t == Self(w).session_id
        IN ~Falsy(StoredIdentity(t)) =>
            build_context_window(Self(w), "ok", "ok")
                = build_context_window(Resolved(t), "ok", "ok")

\* C12: for every session stored under an identity whose group has summary
\* rows, every window an instance of the session builds starts with the
\* summary entry of a group row of greatest last_updated.
C12_GroupFreshestSummary ==
    \A w \in Workers : mem[w] # <<>> =>
        LET t == Self(w).session_id
            id == StoredIdentity(t)
        IN (~Falsy(id) /\ GroupRows(id) # {}) =>
            \A cw \in build_context_window(Self(w), "ok", "ok") :
                /\ Len(cw) >= 2
                /\ \E u \in Latest(GroupRows(id)) :
                    cw[1].parts[1] = SummaryMsg(chat_summaries[u][1].summary)

\* C13: a construction that returns an instance leaves a session row for
\* its token, leaves the registry unchanged when the token had a row
\* (whatever identity was passed, however often it is repeated), and never
\* touches the row of another token.
C13_EnsureSession ==
    [][\A w \in Workers, token \in Tokens, user_id \in Identities \cup {NULL},
          ro \in ReadOutcomes, wo \in WriteOutcomes :
        (Construct(w, token, user_id, ro, wo) /\ mem'[w] # <<>>) =>
            /\ chat_sessions'[token] # <<>>
            /\ chat_sessions[token] # <<>> => chat_sessions' = chat_sessions
            /\ \A u \in Tokens \ {token} : chat_sessions'[u] = chat_sessions[u]]_vars

\* C14: associate_user with an empty or null identity changes neither the
\* registry, nor the instance, nor the turn log, nor the summary store, and
\* does not raise.
C14_AssociateEmptyNoOp ==
    [][\A w \in Workers, phone \in {NULL, ""}, wo \in WriteOutcomes :
        AssociateUser(w, phone, wo) =>
            /\ chat_sessions' = chat_sessions
            /\ mem' = mem
            /\ chat_messages' = chat_messages
            /\ chat_summaries' = chat_summaries
            /\ last'.result = "returned"]_vars

\* an associate_user call with an empty identity has just returned on an
\* instance whose session is stored under an identity
C14_Witness ==
    /\ last.op = "associate_user" /\ last.result = "returned"
    /\ ~Falsy(Self(last.w).user_id)
    /\ ~Falsy(StoredIdentity(Self(last.w).session_id))

\* C15: an associate_user call with a non-empty identity whose statement is
\* committed leaves the session stored under exactly that identity, and no
\* other step changes the identity of a stored session.
C15_LastWriteWins ==
    [][/\ \A w \in Workers, phone \in Identities :
            AssociateUser(w, phone, "ok") =>
                LET t == Self(w).session_id
                IN /\ chat_sessions'[t] # <<>>
                   /\ chat_sessions'[t][1].user_id = phone
       /\ \A t \in Tokens :
            (chat_sessions[t] # <<>> /\ chat_sessions'[t] # chat_sessions[t]) =>
                \E w \in Workers, phone \in Identities :
                    /\ AssociateUser(w, phone, "ok")
                    /\ Self(w).session_id = t]_vars

\* SELECT summary FROM chat_summaries WHERE session_id = ? on the rows of one
\* session
ReadOwn(rows) == IF rows = <<>> THEN NULL ELSE rows[1].summary

\* the texts update_summary is called with
SummaryTexts == {Strip(r) : r \in Responses \ {BackendError, NULL}}

C17_OneSummaryRow ==
    [][/\ \A s \in Tokens :
            /\ Len(chat_summaries'[s]) <= 1
            /\ ReadOwn(chat_summaries'[s]) \in SummaryTexts \cup {NULL}
       /\ \A w \in Workers, response \in Responses \ {BackendError, NULL} :
            CallSummarizationApi(w, response, "ok") =>
                ReadOwn(chat_summaries'[Self(w).session_id]) = Strip(response)]_vars

\* a compaction has committed its text on a token while the other worker is
\* inside a compaction of the same token
C17_Witness ==
    \E w \in Workers, v \in Workers :
        /\ w # v
        /\ last.op = "generate_summary" /\ last.w = w /\ last.writes = 1
        /\ mem[w] # <<>> /\ mem[v] # <<>>
        /\ Self(w).session_id = Self(v).session_id
        /\ pc[v] = "retrying"
        /\ last.prior # NoPreviousSummary

C19_SummaryMutatedOnlyByCompaction ==
    [][\A s \in Tokens : chat_summaries'[s] # chat_summaries[s] =>
        \E w \in Workers :
            /\ mem[w] # <<>> /\ Self(w).session_id = s
            /\ \E response \in Responses, wo \in WriteOutcomes :
                CallSummarizationApi(w, response, wo)]_vars

\* a compaction has just written the row of one session while the other
\* session of the same identity group keeps an older row with another text
C19_Witness ==
    /\ last.op = "generate_summary" /\ last.writes = 1
    /\ \E s \in Tokens, u \in Tokens :
        /\ s # u /\ Self(last.w).session_id = s
        /\ ~Falsy(StoredIdentity(s)) /\ StoredIdentity(s) = StoredIdentity(u)
        /\ chat_summaries[s] # <<>> /\ chat_summaries[u] # <<>>
        /\ chat_summaries[u][1].last_updated < chat_summaries[s][1].last_updated
        /\ chat_summaries[u][1].summary # chat_summaries[s][1].summary

FirstAnswer(answers) ==
    IF \E i \in DOMAIN answers : answers[i] = "ok"
    THEN CHOOSE i \in DOMAIN answers :
            answers[i] = "ok" /\ \A j \in 1..(i - 1) : answers[j] # "ok"
    ELSE 0

\* the assistant message of the last chat turn
LastReply == messages[Len(messages)].content

\* C21: a chat turn answered by the generation backend calls it again after
\* a failure, up to LLM_MAX_RETRIES calls: the turn carries the response of
\* the first call that answers, and fails only when every call fails.
C21_GenerationRetried ==
    generation # NoGeneration =>
        LET k == FirstAnswer(generation.answers)
        IN IF k > 0
           THEN /\ generation.calls = k
                /\ LastReply = ResponseText(TurnNo - 1)
           ELSE /\ generation.calls = LLM_MAX_RETRIES
                /\ LastReply # ResponseText(TurnNo - 1)

\* C22: no assistant message of the history carries the text of the
\* exception a failed generation call raised.
C22_GenericApology ==
    \A i \in DOMAIN messages : messages[i].role = "assistant" =>
        \A j \in DOMAIN messages[i].content :
            messages[i].content[j] \notin ErrorTexts
\* C23: every session that has a turn or a summary row has a row in
\* chat_sessions, also after a storage error in the creation or association
\* of the session.
C23_ReferentialIntegrity ==
    \A t \in Tokens :
        (chat_messages[t] # <<>> \/ chat_summaries[t] # <<>>) => chat_sessions[t] # <<>>

\* C24: the previous summary a compaction passes to the backend is the
\* summary of the session's own row, or the sentinel when the session has no
\* row; it is never the text of another session's row.
C24_PriorSummaryOwnRow ==
    [][\A w \in Workers : (GenerateSummaryCall(w) /\ pc'[w] = "retrying") =>
        LET sid == Self(w).session_id
        IN args'[w][1].current_summary =
            IF chat_summaries[sid] = <<>> THEN NoPreviousSummary
            ELSE chat_summaries[sid][1].summary]_vars

\* the entries of a window that carry the long-term summary
SummaryEntries(cw) == {i \in DOMAIN cw : cw[i].parts[1][1] = SummaryMsg("")[1]}

\* a window that starts with the summary entry of text s and the
\* acknowledgment entry
HasPair(cw, s) ==
    /\ Len(cw) >= 2
    /\ cw[1] = [role |-> "user", parts |-> <<SummaryMsg(s)>>]
    /\ cw[2] = [role |-> "model", parts |-> << <<"Understood. I have the context.">> >>]

\* a window with at most one summary entry, which is then the first entry,
\* and whose other entries are raw turns of session sid
PairFirst(cw, sid) ==
    /\ SummaryEntries(cw) \subseteq {1}
    /\ \A i \in DOMAIN RawPart(cw) :
            \E j \in DOMAIN Log(sid) : RawPart(cw)[i].parts[1] = Log(sid)[j].content

\* C25: every window build_context_window returns starts with the summary
\* entry and the acknowledgment entry if and only if get_summary resolves a
\* summary (a result other than None); the pair appears at most once and
\* before every raw turn, and without a summary the window is the raw turns.
C25_PairIffSummaryResolves ==
    \A w \in Workers : mem[w] # <<>> =>
        \A rs \in ReadOutcomes, rh \in ReadOutcomes :
            \A cw \in build_context_window(Self(w), rs, rh) :
                /\ PairFirst(cw, Self(w).session_id)
                /\ \E s \in get_summary(Self(w), rs) :
                        IF s # NULL THEN HasPair(cw, s) ELSE SummaryEntries(cw) = {}

\* C25 as amended: the pair is prepended if and only if get_summary resolves
\* a non-empty summary; a resolved summary of empty text is treated like no
\* summary.  The pair appears at most once and before every raw turn, and
\* without it the window is the raw turns.
C25_PairIffNonEmptySummary ==
    \A w \in Workers : mem[w] # <<>> =>
        \A rs \in ReadOutcomes, rh \in ReadOutcomes :
            \A cw \in build_context_window(Self(w), rs, rh) :
                /\ PairFirst(cw, Self(w).session_id)
                /\ \E s \in get_summary(Self(w), rs) :
                        IF s \notin {NULL, ""} THEN HasPair(cw, s)
                        ELSE /\ SummaryEntries(cw) = {}
                             /\ cw = RawTurns(get_recent_history(Self(w).session_id,
                                                                 MEMORY_BUFFER_SIZE, rh))

\* an instance whose session has a stored summary and more turns than the
\* buffer: its window is the pair followed by MEMORY_BUFFER_SIZE raw turns
C25_Witness ==
    \E w \in Workers :
        /\ mem[w] # <<>>
        /\ chat_summaries[Self(w).session_id] # <<>>
        /\ \E cw \in build_context_window(Self(w), "ok", "ok") :
                /\ HasPair(cw, "S2")
                /\ Len(cw) = 2 + MEMORY_BUFFER_SIZE

\* an attempt of w's compaction fails: the backend raises or answers without
\* text, or the write of the summary raises
FailedAttempt(w) ==
    \E response \in Responses \cup {BlankText}, wo \in WriteOutcomes :
        /\ CallSummarizationApi(w, response, wo)
        /\ response \in {BackendError, NULL} \/ wo = "execute_error"

\* the compaction that ended in the last step used up its attempts
Exhausted ==
    /\ last.op = "generate_summary"
    /\ last.result = "raised"
    /\ Len(last.calls) = LLM_MAX_RETRIES

\* the compaction that ended in the last step stored a summary
CompactionStored ==
    /\ last.op = "generate_summary"
    /\ last.result = "returned"
    /\ last.writes = 1

C27_AssociateFrame ==
    [][\A w \in Workers, phone \in Identities \cup {NULL, ""}, wo \in WriteOutcomes :
        AssociateUser(w, phone, wo) =>
            /\ chat_messages' = chat_messages
            /\ chat_summaries' = chat_summaries
            /\ \A t \in Tokens \ {Self(w).session_id} :
                    chat_sessions'[t] = chat_sessions[t]]_vars

\* a session with turns and a summary row has been associated, and the
\* other session is still without identity
C27_Witness ==
    /\ StoredIdentity("A") = "0300X"
    /\ StoredIdentity("B") = NULL
    /\ chat_sessions["B"] # <<>>
    /\ chat_summaries["A"] # <<>>
    /\ Len(Log("A")) >= MEMORY_SUMMARY_THRESHOLD

\* the contents of a sequence of turns
Contents(turns) == {turns[i].content : i \in DOMAIN turns}

\* C28: when a compaction of a session enters the summarization call, the
\* turns it passes and the turns get_recent_history(MEMORY_BUFFER_SIZE)
\* returns on the same log have no turn in common and together are all the
\* turns of the log.
C28_InputAndBufferPartition ==
    [][\A w \in Workers : (GenerateSummaryCall(w) /\ pc'[w] = "retrying") =>
        LET sid == Self(w).session_id
            input == Contents(args'[w][1].messages)
            buffer == Contents(get_recent_history(sid, MEMORY_BUFFER_SIZE, "ok"))
        IN /\ input \cap buffer = {}
           /\ input \cup buffer = Contents(Log(sid))]_vars

\* a sequence is a prefix of another
IsPrefix(p, q) == Len(p) <= Len(q) /\ SubSeq(q, 1, Len(p)) = p

IdentityCall(w) ==
    \/ \E token \in Tokens, user_id \in Identities \cup {NULL},
          ro \in ReadOutcomes, wo \in WriteOutcomes :
            Construct(w, token, user_id, ro, wo) /\ mem'[w] # <<>>
    \/ \E phone \in Identities \cup {NULL, ""}, wo \in WriteOutcomes :
            AssociateUser(w, phone, wo)

\* C30: after a construction and after every associate_user call, the
\* user_id of the instance equals the identity chat_sessions stores for its
\* token (None for a NULL identity or a missing row).
C30_IdentityInSync ==
    [][\A w \in Workers : IdentityCall(w) =>
        LET t == mem'[w][1].session_id
        IN mem'[w][1].user_id =
            IF chat_sessions'[t] = <<>> THEN NULL ELSE chat_sessions'[t][1].user_id]_vars

====
